---- MODULE Spec2Model ----
(***************************************************************************)
(* A model of the functional core of tinyresult (src/src/core/index.ts):   *)
(* the Result constructors, the dual-call helper, the colour-polymorphic   *)
(* combinators, tryCatch / wrap, and all.  Promises are modelled by a heap  *)
(* of settlement cells plus the set of reactions registered with `then`.   *)
(***************************************************************************)
EXTENDS Integers, Sequences, FiniteSets, TLC

VARIABLES
    prom,       \* the promise heap: a sequence of settlement cells
    jobs,       \* reactions registered by `then` (and by promise adoption)
    calls,      \* log of the invocations of user-supplied functions
    done,       \* `done` of the running all() call          (index.ts:225)
    pending,    \* `pending` of the running all() call       (index.ts:226)
    values,     \* `values` of the running all() call        (index.ts:223)
    resolves,   \* number of times all() called `resolve`
    out,        \* promise returned by the slow path of all() (0: none)
    subject,    \* the value the combinator under test is applied to
    results,    \* the list handed to all()
    call,       \* the top-level call the program made
    rets,       \* completions of the top-level calls, in call order
    mark,       \* Len(calls) when the most recent top-level call began
    pc          \* position of the program

vars == <<prom, jobs, calls, done, pending, values, resolves, out,
          subject, results, call, rets, mark, pc>>

----------------------------------------------------------------------------
(* Bounds of the model.                                                    *)

\* payloads are the numbers 0 .. MaxVal
MaxVal == 2
\* all() is given lists of at most MaxLen elements
MaxLen == 3

----------------------------------------------------------------------------
(* JavaScript values.                                                      *)

undefined == [t |-> "undefined"]
null == [t |-> "null"]
Num(n) == [t |-> "num", n |-> n]
Str(s) == [t |-> "string", s |-> s]
Arr(items) == [t |-> "array", items |-> items]
PromiseRef(id) == [t |-> "promise", id |-> id]

\* export function ok(value) { return { ok: true, value } }
ok(value) == [t |-> "object", ok |-> TRUE, value |-> value]

\* export function error(error) { return { ok: false, error } }
error(e) == [t |-> "object", ok |-> FALSE, error |-> e]

\* true and false as values
Bool(b) == [t |-> "bool", b |-> b]

\* An object is a record tagged "object" with one field per property.  The
\* field `ok` holds a property `ok` that is a boolean; a property `ok` of any
\* other type is held by the field `okv`.  A function may carry properties
\* in the same way.

\* the typeof operator
TypeOf(v) ==
    CASE v.t = "undefined" -> "undefined"
      [] v.t = "num" -> "number"
      [] v.t = "string" -> "string"
      [] v.t = "bool" -> "boolean"
      [] v.t = "function" -> "function"
      [] OTHER -> "object"

\* name in v, for an object or a function v
HasProperty(v, name) ==
    IF name = "ok" THEN "ok" \in DOMAIN v \/ "okv" \in DOMAIN v
    ELSE name \in DOMAIN v

\* v.ok === b
OkIs(v, b) == "ok" \in DOMAIN v /\ v.ok = b

\* typeof v.then, for v other than null and undefined: a promise has a
\* callable `then`, a primitive has none
TypeofThen(v) ==
    IF v.t = "promise" THEN "function"
    ELSE IF "then" \in DOMAIN v THEN TypeOf(v.then)
    ELSE "undefined"

\* JavaScript truthiness (!!v)
Truthy(v) ==
    CASE v.t \in {"undefined", "null"} -> FALSE
      [] v.t = "num" -> v.n # 0
      [] v.t = "string" -> v.s # ""
      [] v.t = "bool" -> v.b
      [] OTHER -> TRUE

\* completions of a call: a normal return or a thrown exception
Return(v) == [kind |-> "return", val |-> v]
Throw(x) == [kind |-> "throw", val |-> x]

\* reading a property of null or undefined throws
TypeError == Str("TypeError")

\* mutant: any `then` member counts, callable or not
isPromiseLikeEval_AnyThen(v) ==
    IF ~Truthy(v) THEN Return(Bool(FALSE))
    ELSE IF v.t \in {"undefined", "null"} THEN Throw(TypeError)
    ELSE Return(Bool(TypeofThen(v) # "undefined"))

\* evaluating !!v && typeof v.then === 'function'
isPromiseLikeEval(v) ==
    IF ~Truthy(v) THEN Return(Bool(FALSE))
    ELSE IF v.t \in {"undefined", "null"} THEN Throw(TypeError)
    ELSE Return(Bool(TypeofThen(v) = "function"))

isPromiseLike(v) == isPromiseLikeEval(v) = Return(Bool(TRUE))

\* mutant: `ok` is tested for truthiness, not for being the boolean
isResultEval_TruthyOk(value) ==
    IF ~Truthy(value) \/ TypeOf(value) # "object" THEN Return(Bool(FALSE))
    ELSE LET truthyOk == \/ OkIs(value, TRUE)
                         \/ "okv" \in DOMAIN value /\ Truthy(value.okv)
         IN  Return(Bool(/\ HasProperty(value, "ok")
                         /\ \/ truthyOk /\ HasProperty(value, "value")
                            \/ ~truthyOk /\ HasProperty(value, "error")))

\* evaluating isResult(value)
isResultEval(value) ==
    IF ~Truthy(value) \/ TypeOf(value) # "object" THEN Return(Bool(FALSE))
    ELSE Return(Bool(/\ HasProperty(value, "ok")
                     /\ \/ OkIs(value, TRUE) /\ HasProperty(value, "value")
                        \/ OkIs(value, FALSE) /\ HasProperty(value, "error")))

isResult(value) == isResultEval(value) = Return(Bool(TRUE))

----------------------------------------------------------------------------
(* The machine state threaded through the operators below.                 *)

Machine == [prom |-> prom, jobs |-> jobs, calls |-> calls, done |-> done,
            pending |-> pending, values |-> values, resolves |-> resolves,
            out |-> out]

\* the result of running code: the machine afterwards and the completion
Res(m, c) == [m |-> m, c |-> c]

----------------------------------------------------------------------------
(* Promises.                                                               *)

\* a fresh pending cell; `fate` tells how the environment will settle it
\* ("derived": it is settled by a reaction, never by the environment)
NewPromise(m, fate) ==
    [m |-> [m EXCEPT !.prom = Append(@, [st |-> "pending", val |-> undefined,
                                         locked |-> FALSE, fate |-> fate])],
     id |-> Len(m.prom) + 1]

Derived == [kind |-> "derived", val |-> undefined]

\* an absent callback of `then`: the settlement passes through
NoCb == [t |-> "undefined", cb |-> "none"]

\* promise.then(onFul, onRej): a derived promise and a registered reaction
Then(m, p, onFul, onRej) ==
    LET a == NewPromise(m, Derived)
        j == [src |-> p.id, dst |-> a.id, onFul |-> onFul, onRej |-> onRej]
    IN  Res([a.m EXCEPT !.jobs = @ \cup {j}], Return(PromiseRef(a.id)))

Fulfil(m, d, v) ==
    [m EXCEPT !.prom[d] = [@ EXCEPT !.st = "fulfilled", !.val = v, !.locked = TRUE]]

Reject(m, d, r) ==
    [m EXCEPT !.prom[d] = [@ EXCEPT !.st = "rejected", !.val = r, !.locked = TRUE]]

\* the resolve function of promise d: a thenable is adopted, anything else
\* fulfils; a promise that is already resolved ignores the call
Resolve(m, d, v) ==
    IF m.prom[d].locked THEN m
    ELSE IF isPromiseLike(v)
         THEN [m EXCEPT !.prom[d].locked = TRUE,
                        !.jobs = @ \cup {[src |-> v.id, dst |-> d,
                                          onFul |-> NoCb, onRej |-> NoCb]}]
         ELSE Fulfil(m, d, v)

----------------------------------------------------------------------------
(* User-supplied functions.  A function is described by what it does when  *)
(* invoked: return at once ("sync"), throw ("throw"), or return a promise  *)
(* that later fulfils ("async") or rejects ("reject"); `shape` says        *)
(* whether it returns a plain value or a Result, `k` is what it adds.      *)

Fn(name, mode, shape, k) ==
    [t |-> "function", cb |-> "user", name |-> name, mode |-> mode,
     shape |-> shape, k |-> k]

Modes == {"sync", "async", "throw", "reject"}

\* the value thrown by a throwing function, and the reason of a rejection
Boom == Str("boom")
Kapow == Str("kapow")

RECURSIVE SumArgs(_)
SumArgs(args) ==
    IF args = <<>> THEN 0
    ELSE (IF Head(args).t = "num" THEN Head(args).n ELSE 0) + SumArgs(Tail(args))

\* String.prototype.length and String.prototype.toUpperCase on the strings
\* the programs use
StrLen(s) == CASE s = "" -> 0 [] s \in {"z", "Z"} -> 1 [] s \in {"zu", "ZU"} -> 2
ToUpperCase(s) == CASE s = "z" -> "Z" [] s = "zu" -> "ZU" [] OTHER -> s

\* u.length: undefined for a value that has no such property
LengthOf(u) == IF u.t = "string" THEN Num(StrLen(u.s)) ELSE undefined

\* mutant: a name of two characters is too short as well
Validate_TwoIsShort(u) ==
    IF LengthOf(u).t = "num" /\ LengthOf(u).n <= 2 THEN error(Str("SHORT")) ELSE ok(u)

\* u => u.length < 2 ? error("SHORT") : ok(u); undefined < 2 is false
Validate(u) ==
    IF LengthOf(u).t = "num" /\ LengthOf(u).n < 2 THEN error(Str("SHORT")) ELSE ok(u)

\* s => s.toUpperCase() throws a TypeError on a value that is no string
UpperThrows(fn, args) == fn.shape = "upper" /\ args[1].t # "string"

Payload(fn, args) ==
    LET base == Num((SumArgs(args) + fn.k) % (MaxVal + 1))
    IN  CASE fn.shape = "ok" -> ok(base)
          [] fn.shape = "err" -> error(base)
          [] fn.shape = "validate" -> Validate(args[1])
          [] fn.shape = "upper" -> Str(ToUpperCase(args[1].s))
          [] fn.shape = "object" -> [t |-> "object", n |-> base]
          [] fn.shape = "array" -> Arr(<<base>>)
          [] fn.shape = "null" -> null
          [] OTHER -> base

\* fn(...args): the invocation is logged, then the function does its thing
ApplyFn(m, fn, args) ==
    LET m1 == [m EXCEPT !.calls = Append(@, [fn |-> fn.name, args |-> args])]
    IN  CASE fn.mode = "sync" /\ UpperThrows(fn, args) -> Res(m1, Throw(TypeError))
          [] fn.mode = "sync" /\ ~UpperThrows(fn, args) -> Res(m1, Return(Payload(fn, args)))
          [] fn.mode = "throw" -> Res(m1, Throw(Boom))
          [] fn.mode = "async" ->
                LET a == NewPromise(m1, [kind |-> "fulfil", val |-> Payload(fn, args)])
                IN  Res(a.m, Return(PromiseRef(a.id)))
          [] fn.mode = "reject" ->
                LET a == NewPromise(m1, [kind |-> "reject", val |-> Kapow])
                IN  Res(a.m, Return(PromiseRef(a.id)))

\* x => flatMap(f(x), g)
Compose(f, g) == [t |-> "function", cb |-> "compose", f |-> f, g |-> g]

RECURSIVE flatMapBody(_, _, _)

\* calling the transform handed to flatMap: a user function, or a
\* composition that itself calls flatMap on what its first function returns
CallTransform(m, fn, args) ==
    IF fn.cb = "compose"
    THEN LET r == ApplyFn(m, fn.f, args)
         IN  IF r.c.kind = "throw" THEN r ELSE flatMapBody(r.m, r.c.val, fn.g)
    ELSE ApplyFn(m, fn, args)

----------------------------------------------------------------------------
(* The combinators (the bodies handed to dual).                            *)

\* dual's data-last branch: function (self) { return body(self, a[, b]) }
DataLast(op, args) == [t |-> "function", cb |-> "dataLast", op |-> op, args |-> args]

\* the constructors `ok` and `error` used as `then` callbacks
OkCb == [t |-> "function", cb |-> "ok"]
ErrorCb == [t |-> "function", cb |-> "error"]
\* () => result
ConstCb(v) == [t |-> "function", cb |-> "const", val |-> v]

\* mutant: the mapped value is always delivered through a promise
mapBody_AlwaysAsync(m, result, fn) ==
    IF isPromiseLike(result) THEN Then(m, result, DataLast("map", <<fn>>), NoCb)
    ELSE IF ~result.ok THEN Res(m, Return(error(result.error)))
    ELSE LET r == ApplyFn(m, fn, <<result.value>>)
         IN  IF r.c.kind = "throw" THEN r
             ELSE IF isPromiseLike(r.c.val) THEN Then(r.m, r.c.val, OkCb, NoCb)
             ELSE LET a == NewPromise(r.m, [kind |-> "fulfil", val |-> ok(r.c.val)])
                  IN  Res(a.m, Return(PromiseRef(a.id)))

mapBody(m, result, fn) ==
    IF isPromiseLike(result) THEN Then(m, result, DataLast("map", <<fn>>), NoCb)
    ELSE IF ~result.ok THEN Res(m, Return(error(result.error)))
    ELSE LET r == ApplyFn(m, fn, <<result.value>>)
         IN  IF r.c.kind = "throw" THEN r
             ELSE IF isPromiseLike(r.c.val) THEN Then(r.m, r.c.val, OkCb, NoCb)
             ELSE Res(r.m, Return(ok(r.c.val)))

\* mutant: the continuation of a pending subject re-invokes map, not flatMap
flatMapBody_WrongContinuation(m, result, fn) ==
    IF isPromiseLike(result) THEN Then(m, result, DataLast("map", <<fn>>), NoCb)
    ELSE IF result.ok THEN ApplyFn(m, fn, <<result.value>>)
    ELSE Res(m, Return(error(result.error)))

\* mutant: what the transform returns is wrapped in a Success, as map does
flatMapBody_DoubleWrap(m, result, fn) ==
    IF isPromiseLike(result) THEN Then(m, result, DataLast("flatMap", <<fn>>), NoCb)
    ELSE IF result.ok
         THEN LET r == ApplyFn(m, fn, <<result.value>>)
              IN  IF r.c.kind = "throw" THEN r
                  ELSE IF isPromiseLike(r.c.val) THEN Then(r.m, r.c.val, OkCb, NoCb)
                  ELSE Res(r.m, Return(ok(r.c.val)))
    ELSE Res(m, Return(error(result.error)))

\* mutant: a Failure comes out as a Success of its error
flatMapBody_FailureAsSuccess(m, result, fn) ==
    IF isPromiseLike(result) THEN Then(m, result, DataLast("flatMap", <<fn>>), NoCb)
    ELSE IF result.ok THEN CallTransform(m, fn, <<result.value>>)
    ELSE Res(m, Return(ok(result.error)))

flatMapBody(m, result, fn) ==
    IF isPromiseLike(result) THEN Then(m, result, DataLast("flatMap", <<fn>>), NoCb)
    ELSE IF result.ok THEN CallTransform(m, fn, <<result.value>>)
    ELSE Res(m, Return(error(result.error)))

\* mutant: the transform is applied to the payload of a Success as well
mapErrorBody_OnBothChannels(m, result, fn) ==
    IF isPromiseLike(result) THEN Then(m, result, DataLast("mapError", <<fn>>), NoCb)
    ELSE LET r == ApplyFn(m, fn, <<IF result.ok THEN result.value ELSE result.error>>)
         IN  IF r.c.kind = "throw" THEN r
             ELSE IF isPromiseLike(r.c.val) THEN Then(r.m, r.c.val, ErrorCb, NoCb)
             ELSE Res(r.m, Return(error(r.c.val)))

mapErrorBody(m, result, fn) ==
    IF isPromiseLike(result) THEN Then(m, result, DataLast("mapError", <<fn>>), NoCb)
    ELSE IF result.ok THEN Res(m, Return(ok(result.value)))
    ELSE LET r == ApplyFn(m, fn, <<result.error>>)
         IN  IF r.c.kind = "throw" THEN r
             ELSE IF isPromiseLike(r.c.val) THEN Then(r.m, r.c.val, ErrorCb, NoCb)
             ELSE Res(r.m, Return(error(r.c.val)))

\* mutant: the transform is applied whatever the variant
flatMapErrorBody_NoGuard(m, result, fn) ==
    IF isPromiseLike(result) THEN Then(m, result, DataLast("flatMapError", <<fn>>), NoCb)
    ELSE ApplyFn(m, fn, <<IF result.ok THEN result.value ELSE result.error>>)

flatMapErrorBody(m, result, fn) ==
    IF isPromiseLike(result) THEN Then(m, result, DataLast("flatMapError", <<fn>>), NoCb)
    ELSE IF result.ok THEN Res(m, Return(ok(result.value)))
    ELSE ApplyFn(m, fn, <<result.error>>)

\* mutant: the recovered value is wrapped with `error`, as mapError does
catchErrorBody_WrapsError(m, result, fn) ==
    IF isPromiseLike(result) THEN Then(m, result, DataLast("catchError", <<fn>>), NoCb)
    ELSE IF result.ok THEN Res(m, Return(ok(result.value)))
    ELSE LET r == ApplyFn(m, fn, <<result.error>>)
         IN  IF r.c.kind = "throw" THEN r
             ELSE IF isPromiseLike(r.c.val) THEN Then(r.m, r.c.val, ErrorCb, NoCb)
             ELSE Res(r.m, Return(error(r.c.val)))

catchErrorBody(m, result, fn) ==
    IF isPromiseLike(result) THEN Then(m, result, DataLast("catchError", <<fn>>), NoCb)
    ELSE IF result.ok THEN Res(m, Return(ok(result.value)))
    ELSE LET r == ApplyFn(m, fn, <<result.error>>)
         IN  IF r.c.kind = "throw" THEN r
             ELSE IF isPromiseLike(r.c.val) THEN Then(r.m, r.c.val, OkCb, NoCb)
             ELSE Res(r.m, Return(ok(r.c.val)))

\* mutant: for a pending subject the callback is registered and the subject
\* itself is handed back, not the promise that waits for the callback
tapBody_FireAndForget(m, result, onOk) ==
    IF isPromiseLike(result)
    THEN Res(Then(m, result, DataLast("tap", <<onOk>>), NoCb).m, Return(result))
    ELSE IF ~result.ok THEN Res(m, Return(result))
    ELSE LET r == ApplyFn(m, onOk, <<result.value>>)
         IN  IF r.c.kind = "throw" THEN r
             ELSE IF isPromiseLike(r.c.val) THEN Then(r.m, r.c.val, ConstCb(result), NoCb)
             ELSE Res(r.m, Return(result))

\* mutant: a defect of the callback is captured into a Failure
tapBody_Captures(m, result, onOk) ==
    IF isPromiseLike(result) THEN Then(m, result, DataLast("tap", <<onOk>>), NoCb)
    ELSE IF ~result.ok THEN Res(m, Return(result))
    ELSE LET r == ApplyFn(m, onOk, <<result.value>>)
         IN  IF r.c.kind = "throw" THEN Res(r.m, Return(error(r.c.val)))
             ELSE IF isPromiseLike(r.c.val)
                  THEN Then(r.m, r.c.val, ConstCb(result), ErrorCb)
             ELSE Res(r.m, Return(result))

tapBody(m, result, onOk) ==
    IF isPromiseLike(result) THEN Then(m, result, DataLast("tap", <<onOk>>), NoCb)
    ELSE IF ~result.ok THEN Res(m, Return(result))
    ELSE LET r == ApplyFn(m, onOk, <<result.value>>)
         IN  IF r.c.kind = "throw" THEN r
             ELSE IF isPromiseLike(r.c.val) THEN Then(r.m, r.c.val, ConstCb(result), NoCb)
             ELSE Res(r.m, Return(result))

tapErrorBody_ReturnsOut(m, result, onError) ==
    IF isPromiseLike(result) THEN Then(m, result, DataLast("tapError", <<onError>>), NoCb)
    ELSE IF result.ok THEN Res(m, Return(result))
    ELSE LET r == ApplyFn(m, onError, <<result.error>>)
         IN  IF r.c.kind = "throw" THEN r
             ELSE IF isPromiseLike(r.c.val) THEN Then(r.m, r.c.val, ConstCb(result), NoCb)
             ELSE Res(r.m, Return(error(r.c.val)))

tapErrorBody(m, result, onError) ==
    IF isPromiseLike(result) THEN Then(m, result, DataLast("tapError", <<onError>>), NoCb)
    ELSE IF result.ok THEN Res(m, Return(result))
    ELSE LET r == ApplyFn(m, onError, <<result.error>>)
         IN  IF r.c.kind = "throw" THEN r
             ELSE IF isPromiseLike(r.c.val) THEN Then(r.m, r.c.val, ConstCb(result), NoCb)
             ELSE Res(r.m, Return(result))

\* mutant: the result of a pending callback is delivered without waiting for it
tapBothBody_NoWait(m, result, onFinally) ==
    IF isPromiseLike(result) THEN Then(m, result, DataLast("tapBoth", <<onFinally>>), NoCb)
    ELSE LET r == ApplyFn(m, onFinally, <<result>>)
         IN  IF r.c.kind = "throw" THEN r
             ELSE IF isPromiseLike(r.c.val)
                  THEN LET a == NewPromise(r.m, Derived)
                       IN  Res(Fulfil(a.m, a.id, result), Return(PromiseRef(a.id)))
             ELSE Res(r.m, Return(result))

tapBothBody(m, result, onFinally) ==
    IF isPromiseLike(result) THEN Then(m, result, DataLast("tapBoth", <<onFinally>>), NoCb)
    ELSE LET r == ApplyFn(m, onFinally, <<result>>)
         IN  IF r.c.kind = "throw" THEN r
             ELSE IF isPromiseLike(r.c.val) THEN Then(r.m, r.c.val, ConstCb(result), NoCb)
             ELSE Res(r.m, Return(result))

\* mutant: the handler's return value is wrapped in a Success
matchBody_WrapsResult(m, result, onOk, onError) ==
    IF isPromiseLike(result)
    THEN Then(m, result, DataLast("match", <<onOk, onError>>), NoCb)
    ELSE LET r == IF result.ok THEN ApplyFn(m, onOk, <<result.value>>)
                  ELSE ApplyFn(m, onError, <<result.error>>)
         IN  IF r.c.kind = "throw" THEN r ELSE Res(r.m, Return(ok(r.c.val)))

\* mutant: the handler's return value is always delivered through a promise
matchBody_AlwaysAsync(m, result, onOk, onError) ==
    IF isPromiseLike(result)
    THEN Then(m, result, DataLast("match", <<onOk, onError>>), NoCb)
    ELSE LET r == IF result.ok THEN ApplyFn(m, onOk, <<result.value>>)
                  ELSE ApplyFn(m, onError, <<result.error>>)
         IN  IF r.c.kind = "throw" \/ isPromiseLike(r.c.val) THEN r
             ELSE LET a == NewPromise(r.m, [kind |-> "fulfil", val |-> r.c.val])
                  IN  Res(a.m, Return(PromiseRef(a.id)))

matchBody(m, result, onOk, onError) ==
    IF isPromiseLike(result)
    THEN Then(m, result, DataLast("match", <<onOk, onError>>), NoCb)
    ELSE IF result.ok THEN ApplyFn(m, onOk, <<result.value>>)
    ELSE ApplyFn(m, onError, <<result.error>>)

\* a body that only records the arguments it is called with
ProbeBody(m, args) ==
    Res([m EXCEPT !.calls = Append(@, [fn |-> "body", args |-> args])],
        Return(Str("body")))

\* body(a, b[, c]) for the combinator named op
Body(op, m, args) ==
    CASE op = "map" -> mapBody(m, args[1], args[2])
      [] op = "flatMap" -> flatMapBody(m, args[1], args[2])
      [] op = "mapError" -> mapErrorBody(m, args[1], args[2])
      [] op = "flatMapError" -> flatMapErrorBody(m, args[1], args[2])
      [] op = "catchError" -> catchErrorBody(m, args[1], args[2])
      [] op = "tap" -> tapBody(m, args[1], args[2])
      [] op = "tapError" -> tapErrorBody(m, args[1], args[2])
      [] op = "tapBoth" -> tapBothBody(m, args[1], args[2])
      [] op = "match" -> matchBody(m, args[1], args[2], args[3])
      [] op = "probe" -> ProbeBody(m, args)

Arity(op) == IF op = "match" THEN 3 ELSE 2

\* the first n parameters of a function called with `args`: a parameter
\* without an argument is undefined, arguments beyond the n-th are not named
Params(args, n) == [i \in 1..n |-> IF i <= Len(args) THEN args[i] ELSE undefined]

\* mutant: a Result in first position is taken for the subject, whatever the
\* number of arguments
dual_BySubjectType(arity, op, m, args) ==
    IF Len(args) >= arity \/ (Len(args) >= 1 /\ args[1].t \in {"object", "promise"})
    THEN Body(op, m, Params(args, arity))
    ELSE Res(m, Return(DataLast(op, Params(args, arity - 1))))

\* dual(arity, body) called with `args`: data-first when at least `arity`
\* arguments were passed, otherwise the data-last closure is returned
dual(arity, op, m, args) ==
    IF Len(args) >= arity THEN Body(op, m, Params(args, arity))
    ELSE Res(m, Return(DataLast(op, Params(args, arity - 1))))

\* mutant: the closure hands the two handlers of a three-place body over in
\* the wrong order
CallDataLast_SwapsHandlers(m, f, self) ==
    IF Len(f.args) = 2 THEN Body(f.op, m, <<self, f.args[2], f.args[1]>>)
    ELSE Body(f.op, m, <<self>> \o f.args)

\* calling the data-last closure: body(self, a[, b])
CallDataLast(m, f, self) == Body(f.op, m, <<self>> \o f.args)

----------------------------------------------------------------------------
(* from.                                                                   *)

\* `from` handed to then
FromCb == [t |-> "function", cb |-> "from"]

\* mutant: an immediate ResultLike is handed back as it is
fromBody_ReturnsSame(m, result) ==
    IF isPromiseLike(result) THEN Then(m, result, FromCb, NoCb)
    ELSE Res(m, Return(result))

\* from(result)
fromBody(m, result) ==
    IF isPromiseLike(result) THEN Then(m, result, FromCb, NoCb)
    ELSE Res(m, Return(IF result.ok THEN ok(result.value) ELSE error(result.error)))

----------------------------------------------------------------------------
(* tryCatch and wrap.                                                      *)

\* () => fn(...args)
Thunk(fn, args) == [t |-> "function", cb |-> "thunk", fn |-> fn, args |-> args]

\* calling a user function or a thunk around one
CallFn(m, f, args) ==
    IF f.cb = "thunk" THEN ApplyFn(m, f.fn, f.args) ELSE ApplyFn(m, f, args)

\* error(onError ? onError(e) : e)
CaptureError(m, onError, e) ==
    IF Truthy(onError)
    THEN LET r == ApplyFn(m, onError, <<e>>)
         IN  IF r.c.kind = "throw" THEN r ELSE Res(r.m, Return(error(r.c.val)))
    ELSE Res(m, Return(error(e)))

\* (e) => error(onError ? onError(e) : e)
CaptureCb(onError) == [t |-> "function", cb |-> "capture", onError |-> onError]

\* mutant: the rejection handler is missing
tryCatch_NoRejectionHandler(m, fn, onError) ==
    LET r == CallFn(m, fn, <<>>)
    IN  IF r.c.kind = "throw" THEN CaptureError(r.m, onError, r.c.val)
        ELSE IF isPromiseLike(r.c.val) THEN Then(r.m, r.c.val, OkCb, NoCb)
        ELSE Res(r.m, Return(ok(r.c.val)))

tryCatch(m, fn, onError) ==
    LET r == CallFn(m, fn, <<>>)
    IN  IF r.c.kind = "throw" THEN CaptureError(r.m, onError, r.c.val)
        ELSE IF isPromiseLike(r.c.val)
             THEN Then(r.m, r.c.val, OkCb, CaptureCb(onError))
             ELSE Res(r.m, Return(ok(r.c.val)))

\* the function returned by wrap(fn, mapError)
wrap(fn, mapError) == [t |-> "function", cb |-> "wrapped", fn |-> fn, mapError |-> mapError]

\* mutant: the arguments are not forwarded to fn
CallWrapped_DropsArgs(m, w, args) ==
    LET r == ApplyFn(m, w.fn, <<>>)
    IN  IF r.c.kind = "throw" THEN CaptureError(r.m, w.mapError, r.c.val)
        ELSE IF isPromiseLike(r.c.val)
             THEN Then(r.m, r.c.val, OkCb, CaptureCb(w.mapError))
             ELSE Res(r.m, Return(ok(r.c.val)))

\* (...args) => { try { ... } catch (e) { ... } } of wrap
CallWrapped(m, w, args) ==
    LET r == ApplyFn(m, w.fn, args)
    IN  IF r.c.kind = "throw" THEN CaptureError(r.m, w.mapError, r.c.val)
        ELSE IF isPromiseLike(r.c.val)
             THEN Then(r.m, r.c.val, OkCb, CaptureCb(w.mapError))
             ELSE Res(r.m, Return(ok(r.c.val)))

----------------------------------------------------------------------------
(* all.                                                                    *)

\* results.some(isPromiseLike)
HasAsync(rs) == \E i \in 1..Len(rs) : isPromiseLike(rs[i])

\* mutant: the loop does not stop at the first Failure, so the last one wins
RECURSIVE allSync_LastFailure(_, _)
allSync_LastFailure(rs, vals) ==
    IF rs = <<>> THEN ok(Arr(vals))
    ELSE LET rest == allSync_LastFailure(Tail(rs), Append(vals, IF Head(rs).ok
                                                                 THEN Head(rs).value
                                                                 ELSE undefined))
         IN  IF ~Head(rs).ok /\ rest.ok THEN error(Head(rs).error) ELSE rest

\* the fast path: for (const r of results) { if (!r.ok) return error(r.error); ... }
RECURSIVE allSync(_, _)
allSync(rs, vals) ==
    IF rs = <<>> THEN ok(Arr(vals))
    ELSE IF ~Head(rs).ok THEN error(Head(rs).error)
    ELSE allSync(Tail(rs), Append(vals, Head(rs).value))

\* resolve(x) inside the executor of all
allResolve(m, x) == [Resolve(m, m.out, x) EXCEPT !.resolves = @ + 1]

\* the continuation registered on the pending element i
AllItemCb(i) == [t |-> "function", cb |-> "allItem", i |-> i]

\* mutant: the result is resolved without waiting for `pending` to reach 0
allItem_NoCountdown(m, i, r) ==
    IF m.done THEN Res(m, Return(undefined))
    ELSE IF ~r.ok
         THEN Res(allResolve([m EXCEPT !.done = TRUE], error(r.error)), Return(undefined))
         ELSE LET m1 == [m EXCEPT !.values[i] = r.value, !.pending = @ - 1]
              IN  Res(allResolve([m1 EXCEPT !.done = TRUE], ok(Arr(m1.values))),
                      Return(undefined))

\* mutant: the continuation does not look at `done` before it acts
allItem_NoDoneGuard(m, i, r) ==
    IF ~r.ok
    THEN Res(allResolve([m EXCEPT !.done = TRUE], error(r.error)), Return(undefined))
    ELSE LET m1 == [m EXCEPT !.values[i] = r.value, !.pending = @ - 1]
         IN  IF ~m1.done /\ m1.pending = 0
             THEN Res(allResolve([m1 EXCEPT !.done = TRUE], ok(Arr(m1.values))),
                      Return(undefined))
             ELSE Res(m1, Return(undefined))

\* mutant: a Failure is reported only once no element is outstanding
allItem_FailureWaits(m, i, r) ==
    IF m.done THEN Res(m, Return(undefined))
    ELSE IF ~r.ok
         THEN LET m1 == [m EXCEPT !.pending = @ - 1]
              IN  IF m1.pending = 0
                  THEN Res(allResolve([m1 EXCEPT !.done = TRUE], error(r.error)),
                           Return(undefined))
                  ELSE Res(m1, Return(undefined))
         ELSE LET m1 == [m EXCEPT !.values[i] = r.value, !.pending = @ - 1]
              IN  IF ~m1.done /\ m1.pending = 0
                  THEN Res(allResolve([m1 EXCEPT !.done = TRUE], ok(Arr(m1.values))),
                           Return(undefined))
                  ELSE Res(m1, Return(undefined))

\* (r) => { if (done) return; ... }
allItem(m, i, r) ==
    IF m.done THEN Res(m, Return(undefined))
    ELSE IF ~r.ok
         THEN Res(allResolve([m EXCEPT !.done = TRUE], error(r.error)), Return(undefined))
         ELSE LET m1 == [m EXCEPT !.values[i] = r.value, !.pending = @ - 1]
              IN  IF ~m1.done /\ m1.pending = 0
                  THEN Res(allResolve([m1 EXCEPT !.done = TRUE], ok(Arr(m1.values))),
                           Return(undefined))
                  ELSE Res(m1, Return(undefined))

\* one iteration of the executor's loop, for the element at index i
allStep(m, rs, i) ==
    LET item == rs[i]
    IN  IF ~isPromiseLike(item)
        THEN IF ~item.ok
             THEN IF m.done THEN m
                  ELSE allResolve([m EXCEPT !.done = TRUE], error(item.error))
             ELSE [m EXCEPT !.values[i] = item.value]
        ELSE Then([m EXCEPT !.pending = @ + 1], item, AllItemCb(i), NoCb).m

\* for (let i = 0; i < results.length; i++) { ... }
RECURSIVE allLoop(_, _, _)
allLoop(m, rs, i) ==
    IF i > Len(rs) THEN m ELSE allLoop(allStep(m, rs, i), rs, i + 1)

all(m, rs) ==
    IF ~HasAsync(rs) THEN Res(m, Return(allSync(rs, <<>>)))
    ELSE LET a  == NewPromise(m, Derived)
             m0 == [a.m EXCEPT !.out = a.id, !.done = FALSE, !.pending = 0,
                               !.values = [i \in 1..Len(rs) |-> undefined]]
             m1 == allLoop(m0, rs, 1)
             m2 == IF ~m1.done /\ m1.pending = 0
                   THEN allResolve([m1 EXCEPT !.done = TRUE], ok(Arr(m1.values)))
                   ELSE m1
         IN  Res(m2, Return(PromiseRef(a.id)))

----------------------------------------------------------------------------
(* The object-oriented wrapper (src/src/index.ts): Result objects and      *)
(* AsyncResult objects, which wrap a promise of a Result.                  *)

\* ResultImplementation.ok(value), ResultImplementation.error(error)
ROk(value) == [t |-> "object", ok |-> TRUE, value |-> value, class |-> "Result"]
RError(e) == [t |-> "object", ok |-> FALSE, error |-> e, class |-> "Result"]

\* an AsyncResult object, whose _promise is the promise id
AsyncRef(id) == [t |-> "promise", id |-> id, class |-> "AsyncResult"]

\* value !== null && typeof value === "object" ||
\*     typeof value === "function" && typeof value.then === "function"
isThenable(value) ==
    \/ value.t # "null" /\ TypeOf(value) = "object"
    \/ TypeOf(value) = "function" /\ TypeofThen(value) = "function"

\* the callbacks the AsyncResult constructor hands to its executor:
\* (value) => resolve(ResultImplementation.ok(value)) and
\* (error) => resolve(ResultImplementation.error(error))
ResolveOkCb(d) == [t |-> "function", cb |-> "resolveOk", dst |-> d]
\* () => ok(result.value)
ResolveOkConstCb(d, v) == [t |-> "function", cb |-> "resolveOkConst", dst |-> d, val |-> v]
\* () => { }
NoopCb == [t |-> "function", cb |-> "noop"]
\* result => { ... } of AsyncResult.prototype.tap
TapStepCb(d, onOk) == [t |-> "function", cb |-> "tapStep", dst |-> d, onOk |-> onOk]

\* Promise.resolve(x): a promise is handed back, anything else is wrapped in
\* a promise fulfilled with it
PromiseResolve(m, x) ==
    IF x.t = "promise" THEN [m |-> m, id |-> x.id]
    ELSE LET a == NewPromise(m, Derived)
         IN  [m |-> Fulfil(a.m, a.id, x), id |-> a.id]

\* Promise.resolve(x).then(onFul).catch(() => { })
ThenCatch(m, x, onFul) ==
    LET p  == PromiseResolve(m, x)
        t1 == Then(p.m, PromiseRef(p.id), onFul, NoCb)
    IN  Then(t1.m, t1.c.val, NoCb, NoopCb)

\* ResultImplementation.prototype.map
ResultMap(m, self, callbackFn) ==
    IF ~self.ok THEN Res(m, Return(RError(self.error)))
    ELSE LET r == ApplyFn(m, callbackFn, <<self.value>>)
         IN  IF r.c.kind = "throw" THEN r
             ELSE IF isThenable(r.c.val)
                  THEN LET a == NewPromise(r.m, Derived)
                       IN  Res(ThenCatch(a.m, r.c.val, ResolveOkCb(a.id)).m,
                               Return(AsyncRef(a.id)))
                  ELSE Res(r.m, Return(ROk(r.c.val)))

\* the continuation AsyncResult.prototype.tap registers on its own promise
TapStep(m, f, result) ==
    IF ~result.ok THEN Res(Resolve(m, f.dst, RError(result.error)), Return(undefined))
    ELSE LET r == ApplyFn(m, f.onOk, <<result.value>>)
         IN  IF r.c.kind = "throw" THEN r
             ELSE Res(ThenCatch(r.m, r.c.val, ResolveOkConstCb(f.dst, result.value)).m,
                      Return(undefined))

\* AsyncResultImplementation.prototype.tap
AsyncTap(m, self, onOk) ==
    LET a == NewPromise(m, Derived)
    IN  Res(Then(a.m, self, TapStepCb(a.id, onOk), NoCb).m, Return(AsyncRef(a.id)))

----------------------------------------------------------------------------
(* Running a reaction.                                                     *)

\* calling a function value with one argument
Invoke(m, f, arg) ==
    CASE f.cb = "dataLast" -> CallDataLast(m, f, arg)
      [] f.cb = "ok" -> Res(m, Return(ok(arg)))
      [] f.cb = "error" -> Res(m, Return(error(arg)))
      [] f.cb = "const" -> Res(m, Return(f.val))
      [] f.cb = "capture" -> CaptureError(m, f.onError, arg)
      [] f.cb = "allItem" -> allItem(m, f.i, arg)
      [] f.cb = "user" -> ApplyFn(m, f, <<arg>>)
      [] f.cb = "from" -> fromBody(m, arg)
      [] f.cb = "resolveOk" -> Res(Resolve(m, f.dst, ROk(arg)), Return(undefined))
      [] f.cb = "resolveOkConst" -> Res(Resolve(m, f.dst, ROk(f.val)), Return(undefined))
      [] f.cb = "noop" -> Res(m, Return(undefined))
      [] f.cb = "tapStep" -> TapStep(m, f, arg)

\* the reaction j runs once its source has settled: the matching callback is
\* invoked and the derived promise is resolved with what it returns, or
\* rejected with what it throws; without a callback the settlement passes on
React(m, j) ==
    LET s  == m.prom[j.src]
        cb == IF s.st = "fulfilled" THEN j.onFul ELSE j.onRej
        m0 == [m EXCEPT !.jobs = @ \ {j}]
    IN  IF cb.cb = "none"
        THEN IF s.st = "fulfilled" THEN Fulfil(m0, j.dst, s.val)
             ELSE Reject(m0, j.dst, s.val)
        ELSE LET r == Invoke(m0, cb, s.val)
             IN  IF r.c.kind = "throw" THEN Reject(r.m, j.dst, r.c.val)
                 ELSE Resolve(r.m, j.dst, r.c.val)

----------------------------------------------------------------------------
(* The program: one top-level call, then the event loop.                   *)

SetMachine(m) ==
    /\ prom' = m.prom
    /\ jobs' = m.jobs
    /\ calls' = m.calls
    /\ done' = m.done
    /\ pending' = m.pending
    /\ values' = m.values
    /\ resolves' = m.resolves
    /\ out' = m.out

\* a promise created by the environment, not yet settled
Cell(fate) == [st |-> "pending", val |-> undefined, locked |-> FALSE, fate |-> fate]

Outcomes == {ok(Num(v)) : v \in 0..MaxVal} \cup {error(Num(e)) : e \in 0..MaxVal}

\* how a pending Result settles: it fulfils with an Outcome, or it rejects
Fates == {[kind |-> "fulfil", val |-> o] : o \in Outcomes}
             \cup {[kind |-> "reject", val |-> Kapow]}

InitMachine ==
    /\ jobs = {}
    /\ calls = <<>>
    /\ done = FALSE
    /\ pending = 0
    /\ values = <<>>
    /\ resolves = 0
    /\ out = 0
    /\ call = [op |-> "none", args |-> <<>>, argv |-> <<>>]
    /\ rets = <<>>
    /\ mark = 0
    /\ pc = "init"

\* the environment settles one of its promises
Settle(p) ==
    /\ prom[p].st = "pending"
    /\ prom[p].fate.kind \in {"fulfil", "reject"}
    /\ prom' = [prom EXCEPT ![p] = [@ EXCEPT
                   !.st = IF prom[p].fate.kind = "fulfil" THEN "fulfilled" ELSE "rejected",
                   !.val = prom[p].fate.val, !.locked = TRUE]]
    /\ UNCHANGED <<jobs, calls, done, pending, values, resolves, out,
                   subject, results, call, rets, mark, pc>>

\* the event loop runs a reaction whose source has settled
RunJob(j) ==
    /\ prom[j.src].st # "pending"
    /\ SetMachine(React(Machine, j))
    /\ UNCHANGED <<subject, results, call, rets, mark, pc>>

\* nothing is left for the event loop or the environment to do
Quiescent ==
    /\ \A p \in 1..Len(prom) :
          prom[p].st = "pending" => prom[p].fate.kind = "derived"
    /\ \A j \in jobs : prom[j.src].st = "pending"

----------------------------------------------------------------------------
(* Specification of the combinators: a combinator is applied to a subject  *)
(* that is an immediate Result or a pending one; once everything has        *)
(* settled the same call is made on the Outcome the subject settled to,    *)
(* or once more in data-last form.                                         *)

Ops == {"map", "flatMap", "mapError", "flatMapError", "catchError",
        "tap", "tapError", "tapBoth", "match"}

\* the transforms handed to the combinator named op
ArgsFor(op) ==
    CASE op \in {"flatMap", "flatMapError"} ->
            {<<Fn("fn", mode, shape, 1)>> : mode \in {"sync", "async"}, shape \in {"ok", "err"}}
              \cup {<<Fn("fn", mode, "ok", 1)>> : mode \in {"throw", "reject"}}
      [] op = "match" ->
            {<<Fn("onOk", m1, "plain", 1), Fn("onError", m2, "plain", 2)>> :
                m1 \in Modes, m2 \in Modes}
      [] OTHER -> {<<Fn("fn", mode, "plain", 1)>> : mode \in Modes}

Init ==
    /\ InitMachine
    /\ results = <<>>
    /\ \/ subject \in Outcomes /\ prom = <<>>
       \/ \E f \in Fates : prom = <<Cell(f)>> /\ subject = PromiseRef(1)

\* combinator(subject, transform[, extra])
Call ==
    /\ pc = "init"
    /\ \E op \in Ops : \E a \in ArgsFor(op) :
          LET r == dual(Arity(op), op, Machine, <<subject>> \o a)
          IN  /\ SetMachine(r.m)
              /\ rets' = <<r.c>>
              /\ call' = [op |-> op, args |-> a, argv |-> <<>>]
    /\ mark' = 0
    /\ pc' = "called"
    /\ UNCHANGED <<subject, results>>

\* the same call on the Outcome the pending subject settled to
CallDirect ==
    /\ pc = "called"
    /\ Quiescent
    /\ isPromiseLike(subject)
    /\ prom[subject.id].st = "fulfilled"
    /\ LET r == dual(Arity(call.op), call.op, Machine,
                     <<prom[subject.id].val>> \o call.args)
       IN  /\ SetMachine(r.m)
           /\ rets' = Append(rets, r.c)
    /\ mark' = Len(calls)
    /\ pc' = "direct"
    /\ UNCHANGED <<subject, results, call>>

\* the same call in data-last form, combinator(transform[, extra])(subject),
\* made on the same subject once the first call has run to its end
CallLast ==
    /\ pc = "called"
    /\ Quiescent
    /\ LET c == dual(Arity(call.op), call.op, Machine, call.args)
           r == Invoke(c.m, c.c.val, subject)
       IN  /\ SetMachine(r.m)
           /\ rets' = Append(rets, r.c)
    /\ mark' = Len(calls)
    /\ pc' = "last"
    /\ UNCHANGED <<subject, results, call>>

Next ==
    \/ Call
    \/ CallDirect
    \/ CallLast
    \/ \E p \in 1..Len(prom) : Settle(p)
    \/ \E j \in jobs : RunJob(j)

Spec == Init /\ [][Next]_vars

----------------------------------------------------------------------------
(* Observations used by the properties.                                    *)

\* the completion is a returned pending value
IsPendingRet(c) == c.kind = "return" /\ isPromiseLike(c.val)

\* what a completion has come to: a value (returned at once, or the
\* fulfilment of the returned promise), a failure (a thrown exception, or the
\* rejection of the returned promise), or nothing yet
Final(c) ==
    IF c.kind = "throw" THEN [how |-> "failed", val |-> c.val]
    ELSE IF isPromiseLike(c.val)
         THEN CASE prom[c.val.id].st = "fulfilled" ->
                      [how |-> "value", val |-> prom[c.val.id].val]
                [] prom[c.val.id].st = "rejected" ->
                      [how |-> "failed", val |-> prom[c.val.id].val]
                [] OTHER -> [how |-> "pending", val |-> undefined]
         ELSE [how |-> "value", val |-> c.val]

\* the user-function invocations made by the first top-level call
FirstCalls == IF pc \in {"direct", "last", "right"} THEN SubSeq(calls, 1, mark) ELSE calls

\* the user-function invocations made by the second top-level call
SecondCalls == SubSeq(calls, mark + 1, Len(calls))

\* the user function the first call invoked (each combinator invokes at most one)
InvokedFn ==
    CHOOSE f \in {call.args[i] : i \in 1..Len(call.args)} : f.name = FirstCalls[1].fn

\* the subject is, or settles to, an Outcome
HasOutcome == ~isPromiseLike(subject) \/ prom[subject.id].fate.kind = "fulfil"
SubjectOutcome ==
    IF isPromiseLike(subject) THEN prom[subject.id].fate.val ELSE subject

\* the channel a combinator transforms, and the one it passes through
Active(op, o) ==
    \/ op \in {"map", "flatMap", "tap"} /\ o.ok
    \/ op \in {"mapError", "flatMapError", "catchError", "tapError"} /\ ~o.ok
    \/ op \in {"tapBoth", "match"}

----------------------------------------------------------------------------
(* Properties of the combinators.                                          *)

\* C1: for an immediate subject the result of map, flatMap, mapError,
\* flatMapError, catchError, tap, tapError or tapBoth is pending exactly when
\* the transform was invoked and returned a pending value.
C1_ImmediateStaysImmediate ==
    (pc # "init" /\ ~isPromiseLike(subject) /\ call.op # "match") =>
        (IsPendingRet(rets[1]) <=>
            (FirstCalls # <<>> /\ call.args[1].mode \in {"async", "reject"}))

C1_Witness ==
    /\ pc = "called"
    /\ ~isPromiseLike(subject)
    /\ call.op = "map"
    /\ call.args[1].mode = "sync"
    /\ calls # <<>>
    /\ ~IsPendingRet(rets[1])

\* C2: a pending subject always yields a pending result, and once the subject
\* has settled to an Outcome o that result comes to what the same call on o
\* comes to (a value for a value, a rejection for a throw or a rejection).
C2_PendingSubject ==
    /\ (pc # "init" /\ isPromiseLike(subject)) => IsPendingRet(rets[1])
    /\ (pc = "direct" /\ Quiescent) =>
          /\ Final(rets[1]).how # "pending"
          /\ Final(rets[1]) = Final(rets[2])

C2_Witness ==
    /\ pc = "direct"
    /\ Quiescent
    /\ call.op = "flatMap"
    /\ call.args[1].mode = "async"
    /\ IsPendingRet(rets[1])
    /\ Final(rets[1]).how = "value"

\* what C6 expects of map, mapError and catchError on the active channel
Expected6 ==
    LET o == SubjectOutcome
        f == call.args[1]
    IN  CASE call.op = "map" -> ok(Payload(f, <<o.value>>))
          [] call.op = "mapError" -> error(Payload(f, <<o.error>>))
          [] call.op = "catchError" -> ok(Payload(f, <<o.error>>))

\* C6: on its active channel map gives Success(f(v)), mapError gives
\* Failure(f(e)) and catchError gives Success(f(e)), at once when subject and
\* transform are immediate and after settling otherwise; a result of catchError
\* is never a Failure.
C6_ActiveChannelWrap ==
    /\ (/\ pc # "init"
        /\ HasOutcome
        /\ call.op \in {"map", "mapError", "catchError"}
        /\ Active(call.op, SubjectOutcome)
        /\ call.args[1].mode \in {"sync", "async"}) =>
          /\ Final(rets[1]).how \in {"pending", "value"}
          /\ Final(rets[1]).how = "value" => Final(rets[1]).val = Expected6
          /\ Quiescent => Final(rets[1]).how = "value"
          /\ (~isPromiseLike(subject) /\ call.args[1].mode = "sync") =>
                rets[1] = Return(Expected6)
    /\ (pc # "init" /\ call.op = "catchError" /\ Final(rets[1]).how = "value") =>
          Final(rets[1]).val.ok

C6_Witness ==
    /\ pc = "called"
    /\ ~isPromiseLike(subject)
    /\ ~subject.ok
    /\ call.op = "catchError"
    /\ call.args[1].mode = "async"
    /\ Final(rets[1]) = [how |-> "value", val |-> ok(Payload(call.args[1], <<subject.error>>))]

\* C7: on the inactive channel the transform is not invoked and the Outcome
\* comes back structurally unchanged: map and flatMap on a Failure, mapError,
\* flatMapError and catchError on a Success.
C7_InactiveChannelNoOp ==
    (/\ pc = "called"
     /\ ~isPromiseLike(subject)
     /\ call.op \in {"map", "flatMap", "mapError", "flatMapError", "catchError"}
     /\ ~Active(call.op, subject)) =>
        /\ rets[1] = Return(subject)
        /\ calls = <<>>
        /\ prom = <<>>

C7_Witness ==
    /\ pc = "called"
    /\ subject = ok(Num(1))
    /\ call.op = "flatMapError"
    /\ rets[1] = Return(ok(Num(1)))
    /\ calls = <<>>

\* C10: no combinator turns a defect into a Failure.  A transform that throws
\* on an immediate subject makes the call throw; one that throws on a pending
\* subject, or returns a pending value that rejects, makes the pending result
\* reject, never settle to an Outcome.
C10_DefectsNotCaptured ==
    (pc # "init" /\ FirstCalls # <<>>) =>
        /\ (InvokedFn.mode = "throw" /\ ~isPromiseLike(subject)) =>
              rets[1] = Throw(Boom)
        /\ (InvokedFn.mode = "throw" /\ isPromiseLike(subject)) =>
              /\ IsPendingRet(rets[1])
              /\ Final(rets[1]) = [how |-> "failed", val |-> Boom]
        /\ InvokedFn.mode = "reject" =>
              /\ IsPendingRet(rets[1])
              /\ Final(rets[1]).how # "value"
              /\ Quiescent => Final(rets[1]) = [how |-> "failed", val |-> Kapow]

C10_Witness ==
    /\ pc = "called"
    /\ Quiescent
    /\ isPromiseLike(subject)
    /\ call.op = "tap"
    /\ FirstCalls # <<>>
    /\ InvokedFn.mode = "reject"
    /\ Final(rets[1]) = [how |-> "failed", val |-> Kapow]

\* what tap, tapError and tapBoth hand to their callback
TapArg(op, o) ==
    CASE op = "tap" -> o.value
      [] op = "tapError" -> o.error
      [] op = "tapBoth" -> o

\* C11: tap, tapError and tapBoth never alter the Outcome.  tap invokes its
\* callback exactly once with the value on a Success and never on a Failure,
\* tapError exactly once with the error on a Failure and never on a Success,
\* tapBoth exactly once for either; whatever the callback returns, the result
\* comes to the subject's own Outcome.
C11_TapFamily ==
    (/\ pc # "init"
     /\ HasOutcome
     /\ call.op \in {"tap", "tapError", "tapBoth"}) =>
        LET o    == SubjectOutcome
            f    == call.args[1]
            once == <<[fn |-> f.name, args |-> <<TapArg(call.op, o)>>]>>
        IN  /\ FirstCalls = <<>> \/ (Active(call.op, o) /\ FirstCalls = once)
            /\ (Active(call.op, o) /\ (~isPromiseLike(subject) \/ Quiescent)) =>
                  FirstCalls = once
            /\ Final(rets[1]).how = "value" => Final(rets[1]).val = o
            /\ (Quiescent /\ (f.mode \in {"sync", "async"} \/ ~Active(call.op, o))) =>
                  Final(rets[1]).how = "value"

C11_Witness ==
    /\ pc = "called"
    /\ Quiescent
    /\ isPromiseLike(subject)
    /\ call.op = "tapError"
    /\ call.args[1].mode = "sync"
    /\ HasOutcome
    /\ ~SubjectOutcome.ok
    /\ calls = <<[fn |-> "fn", args |-> <<SubjectOutcome.error>>]>>
    /\ Final(rets[1]) = [how |-> "value", val |-> SubjectOutcome]

\* the promise returned by the callback of the first call: the first promise
\* that is neither the subject nor derived by `then`
CallbackPromise ==
    LET made == {p \in 1..Len(prom) :
                    /\ prom[p].fate.kind # "derived"
                    /\ ~(isPromiseLike(subject) /\ p = subject.id)}
    IN  CHOOSE p \in made : \A q \in made : p <= q

\* C12: when the callback of tap, tapError or tapBoth is invoked and returns
\* a pending value, the result is pending, does not settle before that
\* pending value has fulfilled, and then settles to the original Outcome.
C12_TapWaitsForCallback ==
    (/\ pc # "init"
     /\ call.op \in {"tap", "tapError", "tapBoth"}
     /\ FirstCalls # <<>>
     /\ InvokedFn.mode = "async") =>
        /\ IsPendingRet(rets[1])
        /\ Final(rets[1]).how # "failed"
        /\ Final(rets[1]).how = "value" =>
              /\ prom[CallbackPromise].st = "fulfilled"
              /\ Final(rets[1]).val = SubjectOutcome
        /\ Quiescent => Final(rets[1]).how = "value"

C12_Witness ==
    /\ pc = "called"
    /\ ~isPromiseLike(subject)
    /\ call.op = "tapBoth"
    /\ call.args[1].mode = "async"
    /\ calls = <<[fn |-> "fn", args |-> <<subject>>]>>
    /\ prom[CallbackPromise].st = "fulfilled"
    /\ Final(rets[1]) = [how |-> "value", val |-> subject]

\* C13: flatMap never double-wraps.  On a Success(v) the result is exactly
\* what f(v) returns when that is an immediate Outcome; when f(v) is pending
\* the result is pending and settles to the very Outcome f(v) settles to;
\* flatMapError does the same with the error of a Failure.
C13_FlatMapNoDoubleWrap ==
    (/\ pc # "init"
     /\ HasOutcome
     /\ call.op \in {"flatMap", "flatMapError"}
     /\ Active(call.op, SubjectOutcome)
     /\ call.args[1].mode \in {"sync", "async"}) =>
        LET o == SubjectOutcome
            f == call.args[1]
            x == IF call.op = "flatMap" THEN o.value ELSE o.error
        IN  /\ (~isPromiseLike(subject) /\ f.mode = "sync") =>
                  rets[1] = Return(Payload(f, <<x>>))
            /\ (~isPromiseLike(subject) /\ f.mode = "async") =>
                  rets[1] = Return(PromiseRef(CallbackPromise))
            /\ Final(rets[1]).how # "failed"
            /\ Final(rets[1]).how = "value" => Final(rets[1]).val = Payload(f, <<x>>)
            /\ Quiescent => Final(rets[1]).how = "value"

C13_Witness ==
    /\ pc = "called"
    /\ subject = error(Num(1))
    /\ call.op = "flatMapError"
    /\ call.args[1] = Fn("fn", "async", "ok", 1)
    /\ rets[1] = Return(PromiseRef(CallbackPromise))
    /\ Final(rets[1]) = [how |-> "value", val |-> ok(Num(2))]

\* C17: match invokes exactly one handler exactly once, onOk with the value
\* of a Success and onError with the error of a Failure, and its result is
\* exactly what that handler returned (for a pending subject: what the
\* pending result settles to), not wrapped in an Outcome.
C17_MatchOneHandler ==
    (pc # "init" /\ HasOutcome /\ call.op = "match") =>
        LET o    == SubjectOutcome
            h    == IF o.ok THEN call.args[1] ELSE call.args[2]
            x    == IF o.ok THEN o.value ELSE o.error
            once == <<[fn |-> h.name, args |-> <<x>>]>>
        IN  /\ FirstCalls \in {<<>>, once}
            /\ (~isPromiseLike(subject) \/ Quiescent) => FirstCalls = once
            /\ ~isPromiseLike(subject) =>
                  rets[1] = CASE h.mode = "sync" -> Return(Payload(h, <<x>>))
                              [] h.mode = "throw" -> Throw(Boom)
                              [] OTHER -> Return(PromiseRef(CallbackPromise))
            /\ h.mode \in {"sync", "async"} =>
                  /\ Final(rets[1]).how # "failed"
                  /\ Final(rets[1]).how = "value" =>
                        Final(rets[1]).val = Payload(h, <<x>>)
                  /\ Quiescent => Final(rets[1]).how = "value"

C17_Witness ==
    /\ pc = "called"
    /\ Quiescent
    /\ isPromiseLike(subject)
    /\ HasOutcome
    /\ SubjectOutcome = error(Num(0))
    /\ call.op = "match"
    /\ call.args[2].mode = "sync"
    /\ calls = <<[fn |-> "onError", args |-> <<Num(0)>>]>>
    /\ Final(rets[1]) = [how |-> "value", val |-> Num(2)]

\* C18 as stated: the value returned by match is pending if and only if the
\* subject is pending.
C18_MatchPendingIffSubject ==
    (pc # "init" /\ call.op = "match") =>
        (IsPendingRet(rets[1]) <=> isPromiseLike(subject))

\* C18, amended: the value returned by match is pending if and only if the
\* subject is pending or the handler invoked on the immediate subject returned
\* a pending value.
C18_MatchPendingIffSubjectOrHandler ==
    (pc # "init" /\ call.op = "match") =>
        (IsPendingRet(rets[1]) <=>
            \/ isPromiseLike(subject)
            \/ FirstCalls # <<>> /\ InvokedFn.mode \in {"async", "reject"})

C18_Witness ==
    /\ pc = "called"
    /\ subject = ok(Num(1))
    /\ call.op = "match"
    /\ call.args[1].mode = "async"
    /\ calls = <<[fn |-> "onOk", args |-> <<Num(1)>>]>>
    /\ IsPendingRet(rets[1])

\* C16: the data-last and the data-first form are interchangeable.  For
\* map, flatMap, mapError, flatMapError, catchError, tap, tapError, tapBoth
\* and match, combinator(transform)(subject) gives the same result as
\* combinator(subject, transform): the same immediacy, the same settled
\* Outcome and the same callback invocations.
C16_DataLastIsDataFirst ==
    pc = "last" =>
        /\ rets[2].kind = rets[1].kind
        /\ IsPendingRet(rets[2]) <=> IsPendingRet(rets[1])
        /\ ~IsPendingRet(rets[1]) => rets[2] = rets[1]
        /\ Quiescent =>
              /\ Final(rets[2]) = Final(rets[1])
              /\ SecondCalls = FirstCalls

C16_Witness ==
    /\ pc = "last"
    /\ Quiescent
    /\ subject = error(Num(1))
    /\ call.op = "match"
    /\ call.args[2].mode = "async"
    /\ FirstCalls = <<[fn |-> "onError", args |-> <<Num(1)>>]>>
    /\ SecondCalls = FirstCalls
    /\ IsPendingRet(rets[2])
    /\ Final(rets[2]) = [how |-> "value", val |-> Num(0)]

----------------------------------------------------------------------------
(* Specification of all: a list of at most MaxLen elements, each an        *)
(* immediate Result or a pending one, is handed to all; the pending        *)
(* elements settle in any order, before or after the call.  all never      *)
(* looks into a payload, so element i carries the number i.                *)

ElemKinds == {"ok", "err", "pOk", "pErr", "pRej"}
PendingKinds == {"pOk", "pErr", "pRej"}

\* how many of the first i elements are pending: the promise of element i
PIdx(kinds, i) == Cardinality({j \in 1..i : kinds[j] \in PendingKinds})

ElemFate(kinds, i) ==
    CASE kinds[i] = "pOk" -> [kind |-> "fulfil", val |-> ok(Num(i))]
      [] kinds[i] = "pErr" -> [kind |-> "fulfil", val |-> error(Num(i))]
      [] kinds[i] = "pRej" -> [kind |-> "reject", val |-> Kapow]

Elem(kinds, i) ==
    CASE kinds[i] = "ok" -> ok(Num(i))
      [] kinds[i] = "err" -> error(Num(i))
      [] OTHER -> PromiseRef(PIdx(kinds, i))

ElemHeap(kinds) ==
    [p \in 1..PIdx(kinds, Len(kinds)) |->
        Cell(ElemFate(kinds, CHOOSE i \in 1..Len(kinds) :
                                kinds[i] \in PendingKinds /\ PIdx(kinds, i) = p))]

InitAll ==
    /\ InitMachine
    /\ subject = undefined
    /\ \E n \in 0..MaxLen : \E kinds \in [1..n -> ElemKinds] :
          /\ results = [i \in 1..n |-> Elem(kinds, i)]
          /\ prom = ElemHeap(kinds)

\* all(results)
CallAll ==
    /\ pc = "init"
    /\ LET r == all(Machine, results)
       IN  /\ SetMachine(r.m)
           /\ rets' = <<r.c>>
    /\ call' = [op |-> "all", args |-> <<>>, argv |-> <<>>]
    /\ mark' = 0
    /\ pc' = "called"
    /\ UNCHANGED <<subject, results>>

NextAll ==
    \/ CallAll
    \/ \E p \in 1..Len(prom) : Settle(p)
    \/ \E j \in jobs : RunJob(j)

SpecAll == InitAll /\ [][NextAll]_vars

\* element i is pending and has not settled yet
ElemUnsettled(i) ==
    isPromiseLike(results[i]) /\ prom[results[i].id].st = "pending"

\* element i rejects instead of settling to an Outcome
ElemRejects(i) ==
    isPromiseLike(results[i]) /\ prom[results[i].id].fate.kind = "reject"

\* the Outcome element i is, or settles to
ElemOutcome(i) ==
    IF isPromiseLike(results[i]) THEN prom[results[i].id].fate.val ELSE results[i]

Indices == 1..Len(results)
NoElemRejects == \A i \in Indices : ~ElemRejects(i)
FailIdx == {i \in Indices : ~ElemRejects(i) /\ ~ElemOutcome(i).ok}
LowestFailure == CHOOSE i \in FailIdx : \A j \in FailIdx : i <= j
ValuesInOrder == Arr([i \in Indices |-> ElemOutcome(i).value])

\* C4: with no pending element all returns an immediate Outcome, the Failure
\* of the lowest-index Failure element if there is one and otherwise the
\* Success of the values in input order.
C4_AllFastPath ==
    (pc = "called" /\ ~HasAsync(results)) =>
        /\ rets[1] = Return(IF FailIdx # {}
                            THEN error(results[LowestFailure].error)
                            ELSE ok(ValuesInOrder))
        /\ prom = <<>>
        /\ jobs = {}

C4_Witness ==
    /\ pc = "called"
    /\ results = <<ok(Num(1)), error(Num(2)), error(Num(3))>>
    /\ rets[1] = Return(error(Num(2)))

\* C5: with a pending element and every element a Success (now or once
\* settled), the result is pending, does not settle before every pending
\* element has settled, and settles to the Success of the values by index.
C5_AllSlowPathSuccess ==
    (pc = "called" /\ HasAsync(results) /\ NoElemRejects /\ FailIdx = {}) =>
        /\ IsPendingRet(rets[1])
        /\ prom[out].st # "rejected"
        /\ prom[out].st = "fulfilled" =>
              /\ \A i \in Indices : ~ElemUnsettled(i)
              /\ prom[out].val = ok(ValuesInOrder)
        /\ Quiescent => prom[out].st = "fulfilled"

C5_Witness ==
    /\ pc = "called"
    /\ Len(results) = 3
    /\ isPromiseLike(results[1])
    /\ ~isPromiseLike(results[2])
    /\ isPromiseLike(results[3])
    /\ prom[out].st = "fulfilled"
    /\ prom[out].val = ok(Arr(<<Num(1), Num(2), Num(3)>>))

\* C3: when the list holds a pending element, the result of all settles to
\* the Failure with the lowest input index among the elements that are or
\* settle to a Failure, whatever the order in which the elements settle.
C3_AllLowestIndexFailure ==
    (/\ pc = "called"
     /\ HasAsync(results)
     /\ NoElemRejects
     /\ FailIdx # {}
     /\ \A i \in Indices : ~ElemUnsettled(i)
     /\ Quiescent) =>
        /\ prom[out].st = "fulfilled"
        /\ prom[out].val = error(ElemOutcome(LowestFailure).error)

\* the slow path of all has been entered
SlowPath == pc = "called" /\ HasAsync(results)

\* C27: in the slow path of all the result is written at most once: for
\* every list and every order of settlements resolve is called at most one
\* time, and nothing that happens after the result has settled changes it.
C27_AllResolvesOnce ==
    [][/\ resolves' <= 1
       /\ (SlowPath /\ prom[out].st # "pending") => prom'[out] = prom[out]]_vars

C27_Witness ==
    /\ SlowPath
    /\ Quiescent
    /\ Len(results) = 2
    /\ \A i \in Indices : isPromiseLike(results[i]) /\ ~ElemRejects(i) /\ ~ElemOutcome(i).ok
    /\ resolves = 1
    /\ prom[out].st = "fulfilled"

\* the immediate Failure elements
ImmediateFailIdx == {i \in Indices : ~isPromiseLike(results[i]) /\ ~results[i].ok}

\* the continuation of a pending element that has settled to a Failure
DeliversFailure(j) ==
    /\ j.onFul.cb = "allItem"
    /\ prom[j.src].st = "fulfilled"
    /\ ~prom[j.src].val.ok

C29_AllResultSettles ==
    (SlowPath /\ Quiescent) => prom[out].st # "pending"

----------------------------------------------------------------------------
(* Specification of tryCatch and wrap: fn is run through tryCatch, or      *)
(* through the function wrap returns; after a wrapped call has settled,    *)
(* tryCatch(() => fn(...args), onError) is run for comparison.             *)

\* wrapped functions are called with at most MaxArgs arguments
MaxArgs == 2

TryFns == {Fn("fn", mode, "plain", k) : mode \in Modes, k \in 0..MaxVal}
OnErrors == {undefined, Fn("onError", "sync", "plain", 1)}
ArgLists == UNION {[1..n -> {Num(v) : v \in 0..MaxVal}] : n \in 0..MaxArgs}

InitTry ==
    /\ InitMachine
    /\ prom = <<>>
    /\ subject = undefined
    /\ results = <<>>

\* tryCatch(fn, onError)
CallTryCatch ==
    /\ pc = "init"
    /\ \E fn \in TryFns : \E onError \in OnErrors :
          LET r == tryCatch(Machine, fn, onError)
          IN  /\ SetMachine(r.m)
              /\ rets' = <<r.c>>
              /\ call' = [op |-> "tryCatch", args |-> <<fn, onError>>, argv |-> <<>>]
    /\ mark' = 0
    /\ pc' = "called"
    /\ UNCHANGED <<subject, results>>

\* wrap(fn, onError)(...args)
CallWrap ==
    /\ pc = "init"
    /\ \E fn \in TryFns : \E onError \in OnErrors : \E args \in ArgLists :
          LET r == CallWrapped(Machine, wrap(fn, onError), args)
          IN  /\ SetMachine(r.m)
              /\ rets' = <<r.c>>
              /\ call' = [op |-> "wrap", args |-> <<fn, onError>>, argv |-> args]
    /\ mark' = 0
    /\ pc' = "called"
    /\ UNCHANGED <<subject, results>>

\* tryCatch(() => fn(...args), onError), for the arguments of the wrapped call
CallThunk ==
    /\ pc = "called"
    /\ call.op = "wrap"
    /\ Quiescent
    /\ LET r == tryCatch(Machine, Thunk(call.args[1], call.argv), call.args[2])
       IN  /\ SetMachine(r.m)
           /\ rets' = Append(rets, r.c)
    /\ mark' = Len(calls)
    /\ pc' = "direct"
    /\ UNCHANGED <<subject, results, call>>

NextTry ==
    \/ CallTryCatch
    \/ CallWrap
    \/ CallThunk
    \/ \E p \in 1..Len(prom) : Settle(p)
    \/ \E j \in jobs : RunJob(j)

SpecTry == InitTry /\ [][NextTry]_vars

\* onError ? onError(e) : e
Mapped(onError, e) == IF Truthy(onError) THEN Payload(onError, <<e>>) ELSE e

\* C8: tryCatch invokes fn with no arguments; an immediate return v gives an
\* immediate Success(v), a throw of e an immediate Failure(onError ?
\* onError(e) : e), and a pending return a pending result that settles to
\* Success(v) on fulfilment and to Failure(onError ? onError(r) : r) on
\* rejection.
C8_TryCatchCaptures ==
    (pc # "init" /\ call.op = "tryCatch") =>
        LET fn == call.args[1]
            onError == call.args[2]
            v == Payload(fn, <<>>)
        IN  /\ SelectSeq(calls, LAMBDA c : c.fn = "fn") = <<[fn |-> "fn", args |-> <<>>]>>
            /\ fn.mode = "sync" => rets[1] = Return(ok(v))
            /\ fn.mode = "throw" => rets[1] = Return(error(Mapped(onError, Boom)))
            /\ fn.mode \in {"async", "reject"} =>
                  /\ IsPendingRet(rets[1])
                  /\ Final(rets[1]).how # "failed"
                  /\ Final(rets[1]).how = "value" =>
                        Final(rets[1]).val = IF fn.mode = "async" THEN ok(v)
                                             ELSE error(Mapped(onError, Kapow))
                  /\ Quiescent => Final(rets[1]).how = "value"

C8_Witness ==
    /\ pc = "called"
    /\ call.op = "tryCatch"
    /\ call.args[1].mode = "reject"
    /\ Truthy(call.args[2])
    /\ Final(rets[1]) = [how |-> "value", val |-> error(Payload(call.args[2], <<Kapow>>))]

\* C9: wrap(fn, onError)(...args) invokes fn exactly once with exactly those
\* arguments and yields what tryCatch(() => fn(...args), onError) yields: the
\* same immediacy and the same settled Outcome.
C9_WrapIsTryCatch ==
    (pc # "init" /\ call.op = "wrap") =>
        /\ SelectSeq(FirstCalls, LAMBDA c : c.fn = "fn")
              = <<[fn |-> "fn", args |-> call.argv]>>
        /\ (pc = "direct" /\ Quiescent) =>
              /\ IsPendingRet(rets[1]) <=> IsPendingRet(rets[2])
              /\ Final(rets[1]).how = "value"
              /\ Final(rets[1]) = Final(rets[2])

C9_Witness ==
    /\ pc = "direct"
    /\ Quiescent
    /\ call.op = "wrap"
    /\ Len(call.argv) = 2
    /\ call.args[1].mode = "reject"
    /\ Truthy(call.args[2])
    /\ Final(rets[1]).how = "value"
    /\ Final(rets[1]) = Final(rets[2])

----------------------------------------------------------------------------
(* Specification of dual: a function made by dual(arity, body), whose body *)
(* only records its arguments, is called with any number of arguments of   *)
(* any kind; when that call returns a function, the function is called     *)
(* with a subject.                                                          *)

\* the probe function is called with at most MaxDualArgs arguments
MaxDualArgs == 4

\* arguments of every kind: nothing, a number, Results, a pending Result, a
\* function
DualValues == {undefined, Num(0), ok(Num(1)), error(Num(1)), PromiseRef(1),
               Fn("fn", "sync", "plain", 1)}

DualArgLists == UNION {[1..n -> DualValues] : n \in 0..MaxDualArgs}

InitDual ==
    /\ InitMachine
    /\ results = <<>>
    /\ prom = <<Cell([kind |-> "fulfil", val |-> ok(Num(0))])>>
    /\ subject = undefined

\* dual(arity, body)(...args)
CallDual ==
    /\ pc = "init"
    /\ \E arity \in {2, 3} : \E args \in DualArgLists :
          LET r == dual(arity, "probe", Machine, args)
          IN  /\ SetMachine(r.m)
              /\ rets' = <<r.c>>
              /\ call' = [op |-> "probe", args |-> args, argv |-> <<>>,
                          arity |-> arity]
    /\ pc' = "called"
    /\ UNCHANGED <<subject, results, mark>>

\* dual(arity, body)(...args)(self), when the first call returned a function
CallReturned ==
    /\ pc = "called"
    /\ rets[1].kind = "return"
    /\ rets[1].val.t = "function"
    /\ \E self \in DualValues :
          LET r == Invoke(Machine, rets[1].val, self)
          IN  /\ SetMachine(r.m)
              /\ rets' = Append(rets, r.c)
              /\ subject' = self
    /\ pc' = "applied"
    /\ UNCHANGED <<results, call, mark>>

NextDual == CallDual \/ CallReturned

SpecDual == InitDual /\ [][NextDual]_vars

\* C15: a function made by dual(arity, body), arity 2 or 3, chooses its form
\* by the number of arguments alone.  With at least `arity` arguments body is
\* called at once with them; with fewer a function is returned and body is
\* not called until that function is given a subject, when body is called
\* with the subject followed by the arguments supplied before.  What kind of
\* values the arguments are plays no part.
C15_DualByArgumentCount ==
    pc # "init" =>
        LET arity == call.arity
            args  == call.args
        IN  /\ Len(args) >= arity =>
                  /\ calls = <<[fn |-> "body",
                                args |-> [i \in 1..arity |-> args[i]]]>>
                  /\ rets = <<Return(Str("body"))>>
            /\ Len(args) < arity =>
                  /\ rets[1].kind = "return"
                  /\ rets[1].val.t = "function"
                  /\ pc = "called" => calls = <<>>
                  /\ pc = "applied" =>
                        /\ Len(calls) = 1
                        /\ calls[1].fn = "body"
                        /\ Len(calls[1].args) = arity
                        /\ calls[1].args[1] = subject
                        /\ \A i \in 1..(arity - 1) :
                              calls[1].args[i + 1] =
                                  IF i <= Len(args) THEN args[i] ELSE undefined
                        /\ rets[2] = Return(Str("body"))

C15_Witness ==
    /\ pc = "applied"
    /\ call.arity = 3
    /\ call.args = <<ok(Num(1)), Fn("fn", "sync", "plain", 1)>>
    /\ subject = error(Num(1))
    /\ calls = <<[fn |-> "body",
                  args |-> <<error(Num(1)), ok(Num(1)), Fn("fn", "sync", "plain", 1)>>]>>

----------------------------------------------------------------------------
(* Specification of the two predicates: isPromiseLike or isResult is       *)
(* applied to a value of any kind.                                         *)

\* no property
NoProps == [n \in {} |-> undefined]

\* the ways an object can carry, or lack, each of the properties looked at
OkProps == {NoProps, "ok" :> TRUE, "ok" :> FALSE, "okv" :> Num(1),
            "okv" :> Str("true"), "okv" :> null}
ValueProps == {NoProps, "value" :> undefined, "value" :> Num(1)}
ErrorProps == {NoProps, "error" :> Str("e")}
ThenProps == {NoProps, "then" :> Fn("then", "sync", "plain", 0), "then" :> Num(1),
              "then" :> null, "then" :> [t |-> "object"]}

Objects ==
    {[t |-> "object"] @@ o @@ v @@ e @@ th :
        o \in OkProps, v \in ValueProps, e \in ErrorProps, th \in ThenProps}

\* primitives, null and undefined, an array, a promise, functions with and
\* without properties, and objects
ProbeValues ==
    {undefined, null, Num(0), Num(1), Str(""), Str("a"), Bool(FALSE), Bool(TRUE),
     Arr(<<>>), PromiseRef(1), Fn("fn", "sync", "plain", 1),
     Fn("fn", "sync", "plain", 1) @@ ("then" :> Fn("then", "sync", "plain", 0)),
     Fn("fn", "sync", "plain", 1) @@ ("ok" :> TRUE) @@ ("value" :> Num(1))}
        \cup Objects

InitPred ==
    /\ InitMachine
    /\ results = <<>>
    /\ prom = <<Cell([kind |-> "fulfil", val |-> ok(Num(0))])>>
    /\ subject \in ProbeValues

\* isPromiseLike(subject)
CallIsPromiseLike ==
    /\ pc = "init"
    /\ rets' = <<isPromiseLikeEval(subject)>>
    /\ call' = [op |-> "isPromiseLike", args |-> <<>>, argv |-> <<>>]
    /\ pc' = "called"
    /\ UNCHANGED <<prom, jobs, calls, done, pending, values, resolves, out,
                   subject, results, mark>>

\* isResult(subject)
CallIsResult ==
    /\ pc = "init"
    /\ rets' = <<isResultEval(subject)>>
    /\ call' = [op |-> "isResult", args |-> <<>>, argv |-> <<>>]
    /\ pc' = "called"
    /\ UNCHANGED <<prom, jobs, calls, done, pending, values, resolves, out,
                   subject, results, mark>>

NextPred == CallIsPromiseLike \/ CallIsResult

SpecPred == InitPred /\ [][NextPred]_vars

\* the value has a callable `then` member
HasCallableThen(v) ==
    \/ v.t = "promise"
    \/ /\ v.t \in {"object", "function"}
       /\ "then" \in DOMAIN v
       /\ v.then.t = "function"

\* C19: the pending-value predicate returns true for exactly the values that
\* have a callable `then` member, and false, without throwing, for null,
\* undefined, primitives, and objects whose `then` is not callable.
C19_IsPromiseLike ==
    (pc = "called" /\ call.op = "isPromiseLike") =>
        rets[1] = Return(Bool(HasCallableThen(subject)))

C19_Witness ==
    /\ pc = "called"
    /\ call.op = "isPromiseLike"
    /\ subject = [t |-> "object", then |-> Num(1)]
    /\ rets[1] = Return(Bool(FALSE))

\* the value is a non-null object whose `ok` is the boolean true and which
\* has a `value` field, or whose `ok` is the boolean false and which has an
\* `error` field
OutcomeShaped(v) ==
    /\ v.t = "object"
    /\ "ok" \in DOMAIN v
    /\ IF v.ok THEN "value" \in DOMAIN v ELSE "error" \in DOMAIN v

\* C20: the structural Outcome test returns true if and only if its argument
\* is a non-null object whose `ok` is the boolean true and which has a
\* `value` field, or whose `ok` is the boolean false and which has an
\* `error` field; it returns false for everything else: null, primitives,
\* objects without `ok`, objects whose `ok` does not match the field present.
C20_IsResult ==
    (pc = "called" /\ call.op = "isResult") =>
        rets[1] = Return(Bool(OutcomeShaped(subject)))

C20_Witness ==
    /\ pc = "called"
    /\ call.op = "isResult"
    /\ subject = [t |-> "object", ok |-> TRUE, error |-> Str("e")]
    /\ rets[1] = Return(Bool(FALSE))

----------------------------------------------------------------------------
(* Specification of nested flatMap: flatMap(flatMap(r, f), g) is evaluated *)
(* on a subject r that is an immediate Result or a pending one; once       *)
(* everything has settled, flatMap(r, x => flatMap(f(x), g)) is evaluated   *)
(* on the same subject.                                                    *)

\* the transforms f and g
AssocFns(name) ==
    {Fn(name, mode, shape, 1) : mode \in {"sync", "async"}, shape \in {"ok", "err"}}
        \cup {Fn(name, mode, "ok", 1) : mode \in {"throw", "reject"}}

InitAssoc ==
    /\ InitMachine
    /\ results = <<>>
    /\ \/ subject \in Outcomes /\ prom = <<>>
       \/ \E f \in Fates : prom = <<Cell(f)>> /\ subject = PromiseRef(1)

\* flatMap(flatMap(subject, f), g)
CallNested ==
    /\ pc = "init"
    /\ \E f \in AssocFns("f") : \E g \in AssocFns("g") :
          LET inner == dual(2, "flatMap", Machine, <<subject, f>>)
              outer == IF inner.c.kind = "throw" THEN inner
                       ELSE dual(2, "flatMap", inner.m, <<inner.c.val, g>>)
          IN  /\ SetMachine(outer.m)
              /\ rets' = <<outer.c>>
              /\ call' = [op |-> "flatMap", args |-> <<f, g>>, argv |-> <<>>]
    /\ mark' = 0
    /\ pc' = "called"
    /\ UNCHANGED <<subject, results>>

\* flatMap(subject, x => flatMap(f(x), g))
CallComposed ==
    /\ pc = "called"
    /\ Quiescent
    /\ LET r == dual(2, "flatMap", Machine,
                     <<subject, Compose(call.args[1], call.args[2])>>)
       IN  /\ SetMachine(r.m)
           /\ rets' = Append(rets, r.c)
    /\ mark' = Len(calls)
    /\ pc' = "right"
    /\ UNCHANGED <<subject, results, call>>

NextAssoc ==
    \/ CallNested
    \/ CallComposed
    \/ \E p \in 1..Len(prom) : Settle(p)
    \/ \E j \in jobs : RunJob(j)

SpecAssoc == InitAssoc /\ [][NextAssoc]_vars

\* the arguments of the invocations of the function `name` in a call log
ArgsOf(log, name) ==
    LET sel == SelectSeq(log, LAMBDA c : c.fn = name)
    IN  [i \in 1..Len(sel) |-> sel[i].args]

\* C14: flatMap is associative.  For every subject r, immediate or pending,
\* and transforms f and g, flatMap(flatMap(r, f), g) and
\* flatMap(r, x => flatMap(f(x), g)) come to the same settled Outcome and
\* invoke f and g the same number of times with the same arguments.
C14_FlatMapAssociative ==
    (pc = "right" /\ Quiescent) =>
        /\ rets[2].kind = rets[1].kind
        /\ Final(rets[2]) = Final(rets[1])
        /\ ArgsOf(SecondCalls, "f") = ArgsOf(FirstCalls, "f")
        /\ ArgsOf(SecondCalls, "g") = ArgsOf(FirstCalls, "g")

C14_Witness ==
    /\ pc = "right"
    /\ Quiescent
    /\ isPromiseLike(subject)
    /\ call.args[1] = Fn("f", "async", "ok", 1)
    /\ call.args[2] = Fn("g", "sync", "err", 1)
    /\ ArgsOf(SecondCalls, "f") = <<<<Num(1)>>>>
    /\ ArgsOf(SecondCalls, "g") = <<<<Num(2)>>>>
    /\ Final(rets[2]) = [how |-> "value", val |-> error(Num(0))]
    /\ Final(rets[1]) = Final(rets[2])

----------------------------------------------------------------------------
(* Specification of from: from is applied to a ResultLike object that was  *)
(* not made by ok / error, to a pending value that settles to such an      *)
(* object, or to a pending value that settles to another pending value.    *)

\* ResultLike objects made elsewhere: `ref` is the identity of the object,
\* and the object may carry a property of its own
FromInputs ==
    {o @@ ("ref" :> 1) : o \in Outcomes}
        \cup {o @@ ("ref" :> 1) @@ ("extra" :> Num(1)) : o \in Outcomes}

FromFates ==
    {[kind |-> "fulfil", val |-> x] : x \in FromInputs}
        \cup {[kind |-> "reject", val |-> Kapow]}

InitFrom ==
    /\ InitMachine
    /\ results = <<>>
    /\ \/ subject \in FromInputs /\ prom = <<>>
       \/ \E f \in FromFates : prom = <<Cell(f)>> /\ subject = PromiseRef(1)
       \/ \E f \in FromFates :
             /\ prom = <<Cell(f), Cell([kind |-> "fulfil", val |-> PromiseRef(1)])>>
             /\ subject = PromiseRef(2)

\* from(subject)
CallFrom ==
    /\ pc = "init"
    /\ LET r == fromBody(Machine, subject)
       IN  /\ SetMachine(r.m)
           /\ rets' = <<r.c>>
    /\ call' = [op |-> "from", args |-> <<>>, argv |-> <<>>]
    /\ pc' = "called"
    /\ UNCHANGED <<subject, results, mark>>

NextFrom ==
    \/ CallFrom
    \/ \E p \in 1..Len(prom) : Settle(p)
    \/ \E j \in jobs : RunJob(j)

SpecFrom == InitFrom /\ [][NextFrom]_vars

\* how the subject of from ends: its own fate, or the fate of the pending
\* value it settles to
FromFate ==
    IF prom[subject.id].fate.kind = "fulfil" /\ isPromiseLike(prom[subject.id].fate.val)
    THEN prom[prom[subject.id].fate.val.id].fate
    ELSE prom[subject.id].fate

\* r is a newly made Outcome with the variant and the payload of x
NormalizedFrom(r, x) ==
    /\ r # x
    /\ r.t = "object"
    /\ r.ok = x.ok
    /\ DOMAIN r = IF x.ok THEN {"t", "ok", "value"} ELSE {"t", "ok", "error"}
    /\ IF x.ok THEN r.value = x.value ELSE r.error = x.error

\* C21: from normalizes without changing the variant or the payload.  For an
\* immediate ResultLike x it returns a newly constructed Outcome, an object
\* other than x, with the same `ok` and the same value or error; for a
\* pending x it returns a pending result that settles to the normalization
\* of what x settles to, nested pending layers being flattened.
C21_FromNormalizes ==
    pc # "init" =>
        /\ ~isPromiseLike(subject) =>
              /\ rets[1].kind = "return"
              /\ NormalizedFrom(rets[1].val, subject)
        /\ isPromiseLike(subject) =>
              /\ IsPendingRet(rets[1])
              /\ FromFate.kind = "fulfil" =>
                    /\ Final(rets[1]).how # "failed"
                    /\ Final(rets[1]).how = "value" =>
                          NormalizedFrom(Final(rets[1]).val, FromFate.val)
                    /\ Quiescent => Final(rets[1]).how = "value"

C21_Witness ==
    /\ pc = "called"
    /\ Quiescent
    /\ subject = PromiseRef(2)
    /\ prom[2].val = PromiseRef(1)
    /\ prom[1].val = error(Num(1)) @@ ("ref" :> 1) @@ ("extra" :> Num(1))
    /\ Final(rets[1]) = [how |-> "value", val |-> error(Num(1))]

----------------------------------------------------------------------------
(* Specification of the object-oriented wrapper: map is called on a Result *)
(* object, or tap on an AsyncResult object whose promise settles before or *)
(* after the call.                                                         *)

\* Result objects
RResults == {ROk(Num(v)) : v \in 0..MaxVal} \cup {RError(Num(e)) : e \in 0..MaxVal}

\* callbacks of map: they return a number, null, a plain object, an array
\* or a promise, or they throw
MapCallbacks ==
    {Fn("fn", "sync", shape, 1) : shape \in {"plain", "null", "object", "array"}}
        \cup {Fn("fn", mode, "plain", 1) : mode \in {"async", "reject", "throw"}}

InitOO ==
    /\ InitMachine
    /\ results = <<>>
    /\ \/ subject \in RResults /\ prom = <<>>
       \/ \E r \in RResults :
             /\ prom = <<Cell([kind |-> "fulfil", val |-> r])>>
             /\ subject = AsyncRef(1)

\* result.map(fn) on a Result object
CallResultMap ==
    /\ pc = "init"
    /\ subject.class = "Result"
    /\ \E fn \in MapCallbacks :
          LET r == ResultMap(Machine, subject, fn)
          IN  /\ SetMachine(r.m)
              /\ rets' = <<r.c>>
              /\ call' = [op |-> "Result.map", args |-> <<fn>>, argv |-> <<>>]
    /\ pc' = "called"
    /\ UNCHANGED <<subject, results, mark>>

\* asyncResult.tap(fn) on an AsyncResult object
CallAsyncTap ==
    /\ pc = "init"
    /\ subject.class = "AsyncResult"
    /\ \E fn \in {Fn("fn", mode, "plain", 1) : mode \in Modes} :
          LET r == AsyncTap(Machine, subject, fn)
          IN  /\ SetMachine(r.m)
              /\ rets' = <<r.c>>
              /\ call' = [op |-> "AsyncResult.tap", args |-> <<fn>>, argv |-> <<>>]
    /\ pc' = "called"
    /\ UNCHANGED <<subject, results, mark>>

NextOO ==
    \/ CallResultMap
    \/ CallAsyncTap
    \/ \E p \in 1..Len(prom) : Settle(p)
    \/ \E j \in jobs : RunJob(j)

SpecOO == InitOO /\ [][NextOO]_vars

\* C25: AsyncResult.prototype.tap on a subject that settles to a Success,
\* with a callback that returns a promise rejecting with reason r, yields an
\* AsyncResult that settles to a Failure whose error is r.
C25_AsyncTapRejectingCallback ==
    (/\ pc = "called"
     /\ call.op = "AsyncResult.tap"
     /\ prom[subject.id].fate.val.ok
     /\ call.args[1].mode = "reject"
     /\ Quiescent) =>
        Final(rets[1]) = [how |-> "value", val |-> RError(Kapow)]

\* C30: Result.prototype.map on a Success returns a synchronous Result, not
\* an AsyncResult, whenever what the callback returns has no callable `then`
\* member, a plain object or an array included.
C30_ResultMapSync ==
    (/\ pc = "called"
     /\ call.op = "Result.map"
     /\ subject.ok
     /\ call.args[1].mode = "sync") =>
        /\ ~HasCallableThen(Payload(call.args[1], <<subject.value>>))
        /\ rets[1] = Return(ROk(Payload(call.args[1], <<subject.value>>)))

----------------------------------------------------------------------------
(* Specification of a chain: combinators are applied one after another,    *)
(* each to what the one before returned, while the environment settles     *)
(* promises and the event loop runs reactions in between.                  *)

\* a chain has at most MaxChain combinators
MaxChain == 2

ChainOps == {"map", "flatMap", "mapError", "flatMapError", "catchError",
             "tap", "tapError", "tapBoth"}

\* the name of the callback handed to the i-th combinator of the chain
StepName == <<"f1", "f2", "f3", "f4">>
StepOf(name) == CHOOSE i \in 1..Len(StepName) : StepName[i] = name

\* the callbacks handed to the i-th combinator when it is the one named op
ChainFns(op, i) ==
    CASE op = "flatMap" ->
            {Fn(StepName[i], mode, shape, 1) : mode \in {"sync", "async"}, shape \in {"ok", "err"}}
              \cup {Fn(StepName[i], "sync", "validate", 0)}
      [] op = "flatMapError" ->
            {Fn(StepName[i], mode, "ok", 1) : mode \in {"sync", "async"}}
      [] op = "map" ->
            {Fn(StepName[i], mode, "plain", 1) : mode \in Modes}
              \cup {Fn(StepName[i], "sync", "upper", 0)}
      [] OTHER -> {Fn(StepName[i], mode, "plain", 1) : mode \in {"sync", "async"}}

\* the originating subjects
ChainOutcomes == {ok(Num(0)), error(Num(0)), ok(Str("z")), ok(Str("zu"))}

InitChain ==
    /\ InitMachine
    /\ results = <<>>
    /\ \/ subject \in ChainOutcomes /\ prom = <<>>
       \/ \E f \in {[kind |-> "fulfil", val |-> o] : o \in ChainOutcomes}
                        \cup {[kind |-> "reject", val |-> Kapow]} :
             prom = <<Cell(f)>> /\ subject = PromiseRef(1)

\* the subject of the i-th combinator
StepSubject(i) == IF i = 1 THEN subject ELSE rets[i - 1].val

\* the next combinator is applied to what the one before returned
ChainStep ==
    /\ pc \in {"init", "chain"}
    /\ Len(rets) < MaxChain
    /\ rets # <<>> => rets[Len(rets)].kind = "return"
    /\ \E op \in ChainOps : \E fn \in ChainFns(op, Len(rets) + 1) :
          LET r == dual(Arity(op), op, Machine, <<StepSubject(Len(rets) + 1), fn>>)
          IN  /\ SetMachine(r.m)
              /\ rets' = Append(rets, r.c)
              /\ call' = [op |-> "chain", args |-> Append(call.args, fn),
                          argv |-> Append(call.argv, op)]
    /\ pc' = "chain"
    /\ UNCHANGED <<subject, results, mark>>

NextChain ==
    \/ ChainStep
    \/ \E p \in 1..Len(prom) : Settle(p)
    \/ \E j \in jobs : RunJob(j)

SpecChain == InitChain /\ [][NextChain]_vars

\* C23: in a chain on one originating subject the callbacks are invoked in
\* the order their combinators were attached: no callback of a later
\* combinator is invoked before a callback of an earlier one.
C23_ChainOrder ==
    \A i, j \in 1..Len(calls) :
        i < j => StepOf(calls[i].fn) <= StepOf(calls[j].fn)

C23_Witness ==
    /\ isPromiseLike(subject)
    /\ Len(rets) = 2
    /\ call.args[1].mode = "async"
    /\ Len(calls) = 2
    /\ calls[1].fn = "f1"
    /\ calls[2].fn = "f2"

\* the chain began with flatMap(subject, Validate) and has n combinators
ValidateFirst(n) ==
    /\ Len(rets) = n
    /\ call.argv[1] = "flatMap"
    /\ call.args[1] = Fn("f1", "sync", "validate", 0)

\* the second combinator of the chain is map(_, s => s.toUpperCase())
UpperSecond ==
    /\ call.argv[2] = "map"
    /\ call.args[2] = Fn("f2", "sync", "upper", 0)

\* C24: flatMap(ok("zu"), u => u.length < 2 ? error("SHORT") : ok(u)) is
\* Failure("SHORT"), and map(_, s => s.toUpperCase()) on that result does not
\* invoke the mapper and returns the same Failure("SHORT").
C24_ZuIsShort ==
    /\ (subject = ok(Str("zu")) /\ ValidateFirst(1)) =>
            rets[1] = Return(error(Str("SHORT")))
    /\ (subject = ok(Str("zu")) /\ ValidateFirst(2) /\ UpperSecond) =>
            /\ rets[2] = Return(error(Str("SHORT")))
            /\ \A i \in 1..Len(calls) : calls[i].fn # "f2"

\* C24 (amended): "zu" has length 2 and passes: the flatMap is Success("zu")
\* and the map invokes the mapper once, giving Success("ZU"); it is "z" that
\* is too short: the flatMap is Failure("SHORT"), and the map returns
\* Failure("SHORT") without invoking the mapper.
C24_ValidateThenUpper ==
    /\ (subject = ok(Str("zu")) /\ ValidateFirst(1)) =>
            rets[1] = Return(ok(Str("zu")))
    /\ (subject = ok(Str("zu")) /\ ValidateFirst(2) /\ UpperSecond) =>
            /\ rets[2] = Return(ok(Str("ZU")))
            /\ calls = <<[fn |-> "f1", args |-> <<Str("zu")>>],
                         [fn |-> "f2", args |-> <<Str("zu")>>]>>
    /\ (subject = ok(Str("z")) /\ ValidateFirst(1)) =>
            rets[1] = Return(error(Str("SHORT")))
    /\ (subject = ok(Str("z")) /\ ValidateFirst(2) /\ UpperSecond) =>
            /\ rets[2] = Return(error(Str("SHORT")))
            /\ calls = <<[fn |-> "f1", args |-> <<Str("z")>>]>>

C24_Witness ==
    /\ subject = ok(Str("zu"))
    /\ ValidateFirst(2)
    /\ UpperSecond
    /\ rets[2] = Return(ok(Str("ZU")))

\* the i-th combinator of the chain is on its inactive channel for Outcome o
Inactive(i, o) == ~Active(call.argv[i], o)

\* the callback of the i-th combinator has not been invoked
NotInvoked(i) == \A k \in 1..Len(calls) : calls[k].fn # StepName[i]

\* C26: a combinator on its inactive channel returns an immediate Outcome
\* at once, even when the combinator before it in the chain returned a
\* pending result.
C26_InactiveIsImmediate ==
    \A i \in 2..Len(rets) :
        (/\ IsPendingRet(rets[i - 1])
         /\ Final(rets[i - 1]).how = "value"
         /\ Inactive(i, Final(rets[i - 1]).val)) =>
            ~IsPendingRet(rets[i])

\* C26 (amended): a combinator on its inactive channel never invokes its
\* callback; on an immediate subject it returns that Outcome at once, and on
\* a pending subject it returns a pending result that settles to the
\* Outcome the subject settled to.
C26_InactivePassesThrough ==
    \A i \in 1..Len(rets) :
        LET s == StepSubject(i)
        IN  IF isPromiseLike(s)
            THEN /\ IsPendingRet(rets[i])
                 /\ (prom[s.id].st = "fulfilled" /\ Inactive(i, prom[s.id].val)) =>
                        /\ NotInvoked(i)
                        /\ Quiescent =>
                               Final(rets[i]) = [how |-> "value", val |-> prom[s.id].val]
            ELSE Inactive(i, s) => (rets[i] = Return(s) /\ NotInvoked(i))

C26_Witness ==
    /\ Len(rets) = 2
    /\ call.argv = <<"flatMap", "map">>
    /\ call.args[1].mode = "async"
    /\ IsPendingRet(rets[1])
    /\ Quiescent
    /\ Final(rets[1]) = [how |-> "value", val |-> error(Num(1))]
    /\ Final(rets[2]) = [how |-> "value", val |-> error(Num(1))]

====
